---------------------------- MODULE Spec2Model ----------------------------
(***************************************************************************)
(* A model of the CRUD service of src/main.py: the five tables (user,      *)
(* playlist, album, song, playlistsong) and one action per HTTP handler.   *)
(* A handler is one atomic step of the store, except in SpecConc, where    *)
(* add_song_in_playlist, remove_song_from_playlist and create_user are     *)
(* split at the points where they wait for the store, so that requests     *)
(* interleave.                                                             *)
(*                                                                         *)
(* Behaviour that comes from the libraries the handlers call:              *)
(*   - an exception that is no HTTPException ends the request with 500;    *)
(*   - Query(le=100) rejects a larger limit with 422;                      *)
(*   - a UNIQUE index or PRIMARY KEY violated at commit raises             *)
(*     IntegrityError and the transaction is rolled back;                  *)
(*   - an integer primary key of SQLite is max(rowid) + 1 on insert;       *)
(*   - session.delete() of a parent of a one-to-many relationship with no  *)
(*     cascade sets the children's foreign key to NULL, and of an end of a *)
(*     many-to-many relationship deletes its rows of the link table.       *)
(***************************************************************************)
EXTENDS Integers, Sequences, FiniteSets, Bags, TLC

VARIABLES
    user,          \* table user: id -> [email, role, firstname, lastname]
    playlist,      \* table playlist: id -> [name, owner_id]
    album,         \* table album: id -> [name, owner_id]
    song,          \* table song: id -> [name, duration_in_sec, album_id]
    playlistsong,  \* table playlistsong: the bag of its rows <<playlist_id, song_id>>
    resp,          \* the response of the last request that ended
    inflight       \* SpecConc: request slot -> the request suspended before its commit

vars == <<user, playlist, album, song, playlistsong, resp, inflight>>
store == <<user, playlist, album, song, playlistsong>>

----------------------------------------------------------------------------
(* Bounds of the model. *)

MaxUsers == 2
MaxPlaylists == 2
MaxAlbums == 1
MaxSongs == 2
MaxInflight == 2

(* Status codes. *)
HTTP_200_OK == 200
HTTP_201_CREATED == 201
HTTP_404_NOT_FOUND == 404
HTTP_422_UNPROCESSABLE == 422
HTTP_500_INTERNAL == 500

(* Query(le=100) of get_users. *)
LimitCap == 100

----------------------------------------------------------------------------
(* Values. An Optional[T] is <<>> (None) or <<v>>. The same encoding says  *)
(* whether a field of a request body was sent (model_fields_set).          *)

None == <<>>
Some(v) == <<v>>
Unset == <<>>

Max(a, b) == IF a >= b THEN a ELSE b
Min(a, b) == IF a <= b THEN a ELSE b
MaxOf(S) == CHOOSE m \in S : \A x \in S : x <= m

Emails == {"a@x.com", "b@x.com", "c@x.com"}
Roles == {0, 1}
FirstNames == {None, Some("Ann")}
LastNames == {None, Some("Lee")}
Names == {"n1", "n2"}
Durations == {0, 180}

UserIds == 1 .. MaxUsers + 1
PlaylistIds == 1 .. MaxPlaylists + 1
AlbumIds == 1 .. MaxAlbums + 1
SongIds == 1 .. MaxSongs + 1

(* Query parameters of get_users, rejected ones and negative ones included. *)
Limits == {-1, 0, 1, 2, LimitCap, LimitCap + 1}
Offsets == {-2, -1, 0, 1, 2, 3}

----------------------------------------------------------------------------
(* Request bodies. *)

UserCreate ==
    [email : Emails,
     role : {Unset} \cup {Some(r) : r \in Roles},
     firstname : {Unset} \cup {Some(f) : f \in FirstNames},
     lastname : {Unset} \cup {Some(l) : l \in LastNames}]

UserUpdate ==
    [role : {Unset} \cup {Some(r) : r \in Roles},
     firstname : {Unset} \cup {Some(f) : f \in FirstNames},
     lastname : {Unset} \cup {Some(l) : l \in LastNames}]

UserDefaults == [role |-> 0, firstname |-> None, lastname |-> None]

PlaylistCreate == [name : Names]
PlaylistUpdate == [name : {Unset} \cup {Some(n) : n \in Names}]
AlbumCreate == [name : Names]
AlbumUpdate == [name : {Unset} \cup {Some(n) : n \in Names}]
SongCreate == [name : Names, duration_in_sec : Durations]
SongUpdate ==
    [name : {Unset} \cup {Some(n) : n \in Names},
     duration_in_sec : {Unset} \cup {Some(d) : d \in Durations}]

(* Bodies that send the email alone, for the specifications about the other tables. *)
UserCreateEmailOnly ==
    {u \in UserCreate : u.role = Unset /\ u.firstname = Unset /\ u.lastname = Unset}

----------------------------------------------------------------------------
(* The ORM. *)

(* model_dump() without exclude_unset: a field not sent takes its default. *)
model_dump_all(body, defaults) ==
    [f \in DOMAIN body |->
        IF body[f] = Unset /\ f \in DOMAIN defaults THEN Some(defaults[f]) ELSE body[f]]

(* model_dump(exclude_unset=True): the fields sent, each with its value. *)
model_dump(body, defaults) == body

(* sqlmodel_update(data): every key of data is assigned, the rest is kept. *)
sqlmodel_update(row, data) ==
    [f \in DOMAIN row |->
        IF f \in DOMAIN data /\ data[f] # Unset THEN data[f][1] ELSE row[f]]

(* User.model_validate(user): the defaults of UserCreate for the fields not sent. *)
model_validate(u) ==
    [email |-> u.email,
     role |-> IF u.role = Unset THEN UserDefaults.role ELSE u.role[1],
     firstname |-> IF u.firstname = Unset THEN UserDefaults.firstname ELSE u.firstname[1],
     lastname |-> IF u.lastname = Unset THEN UserDefaults.lastname ELSE u.lastname[1]]

(* The integer primary key SQLite gives an inserted row. *)
NextId(table) == IF DOMAIN table = {} THEN 1 ELSE MaxOf(DOMAIN table) + 1

Insert(table, row) == (NextId(table) :> row) @@ table
Delete(table, id) == [i \in DOMAIN table \ {id} |-> table[i]]

(* The UNIQUE index on user.email, without the check. *)
EmailTakenUnchecked(table, email) == FALSE

(* The UNIQUE index on user.email: an insert of an email already stored fails. *)
EmailTaken(table, email) == \E i \in DOMAIN table : table[i].email = email

(* The PRIMARY KEY (playlist_id, song_id), without the check. *)
LinkTakenUnchecked(links, p, s) == FALSE

(* The PRIMARY KEY (playlist_id, song_id) of playlistsong. *)
LinkTaken(links, p, s) == BagIn(<<p, s>>, links)

(* The ids of a table in rowid order, as select() returns its rows. *)
RECURSIVE Sorted(_)
Sorted(S) ==
    IF S = {} THEN <<>>
    ELSE LET m == MaxOf(S) IN Append(Sorted(S \ {m}), m)

Rows(table) == [k \in 1 .. Len(Sorted(DOMAIN table)) |->
                    [id |-> Sorted(DOMAIN table)[k], row |-> table[Sorted(DOMAIN table)[k]]]]

(* Query(le=100), without the validation. *)
LimitAcceptedAny(limit) == TRUE

(* Query(le=100): a larger limit is a validation error. *)
LimitAccepted(limit) == limit <= LimitCap

(* A slice that takes the element at stop too. *)
PySliceInclusive(s, start, stop) ==
    LET lo == IF start < 0 THEN Max(start + Len(s), 0) ELSE Min(start, Len(s))
        hi == IF stop + 1 < 0 THEN Max(stop + 1 + Len(s), 0) ELSE Min(stop + 1, Len(s))
    IN IF lo >= hi THEN <<>> ELSE SubSeq(s, lo + 1, hi)

(* A Python slice s[start:stop] of a list. *)
PyIndex(i, n) == IF i < 0 THEN Max(i + n, 0) ELSE Min(i, n)
PySlice(s, start, stop) ==
    LET lo == PyIndex(start, Len(s))
        hi == PyIndex(stop, Len(s))
    IN IF lo >= hi THEN <<>> ELSE SubSeq(s, lo + 1, hi)

(* select(Playlist).where(owner_id == user_id).where(id == playlist_id).first() *)
OwnedPlaylist(user_id, playlist_id) ==
    playlist_id \in DOMAIN playlist /\ playlist[playlist_id].owner_id = Some(user_id)

(* The relationship collections. *)
UserPlaylists(user_id) == {p \in DOMAIN playlist : playlist[p].owner_id = Some(user_id)}
UserAlbums(user_id) == {a \in DOMAIN album : album[a].owner_id = Some(user_id)}
AlbumSongs(album_id) == {s \in DOMAIN song : song[s].album_id = Some(album_id)}

(* playlist.songs: one entry per row of playlistsong of the playlist. *)
RECURSIVE Repeat(_, _)
Repeat(x, n) == IF n = 0 THEN <<>> ELSE Append(Repeat(x, n - 1), x)
RECURSIVE PlaylistSongsOf(_, _)
PlaylistSongsOf(playlist_id, ids) ==
    IF ids = <<>> THEN <<>>
    ELSE Repeat(Head(ids), CopiesIn(<<playlist_id, Head(ids)>>, playlistsong))
             \o PlaylistSongsOf(playlist_id, Tail(ids))
PlaylistSongs(playlist_id) == PlaylistSongsOf(playlist_id, Sorted(DOMAIN song))

(* The children deleted with the parent: what a cascade would do. *)
OrphanCascade(table, key, id) ==
    [i \in {j \in DOMAIN table : table[j][key] # Some(id)} |-> table[i]]

(* The foreign keys of the children set to NULL when the parent is deleted. *)
Orphan(table, key, id) ==
    [i \in DOMAIN table |->
        IF table[i][key] = Some(id) THEN [table[i] EXCEPT ![key] = None] ELSE table[i]]

(* The rows of playlistsong without those of a playlist, or of a song. *)
Unlink(links, pos, id) ==
    [e \in {x \in DOMAIN links : x[pos] # id} |-> links[e]]

Response(op, args, status, detail, body) ==
    [op |-> op, args |-> args, status |-> status, detail |-> detail, body |-> body]

NoBody == <<>>

(* The request slots of SpecConc; an idle slot holds no request. *)
Slots == 1 .. MaxInflight
Idle == [op |-> "idle", args |-> <<>>, pc |-> ""]

----------------------------------------------------------------------------
Init ==
    /\ user = <<>>
    /\ playlist = <<>>
    /\ album = <<>>
    /\ song = <<>>
    /\ playlistsong = EmptyBag
    /\ resp = Response("startup", <<>>, HTTP_200_OK, "", NoBody)
    /\ inflight = [r \in Slots |-> Idle]

----------------------------------------------------------------------------
(* User logic *)

get_user(user_id) ==
    /\ resp' = IF user_id \notin DOMAIN user
               THEN Response("get_user", <<user_id>>, HTTP_404_NOT_FOUND, "", NoBody)
               ELSE Response("get_user", <<user_id>>, HTTP_200_OK, "",
                             [user |-> user[user_id],
                              user_playlists |-> UserPlaylists(user_id),
                              owned_albums |-> UserAlbums(user_id)])
    /\ UNCHANGED <<store, inflight>>

get_users(limit, offset) ==
    /\ resp' = IF ~LimitAccepted(limit)
               THEN Response("get_users", <<limit, offset>>, HTTP_422_UNPROCESSABLE, "", NoBody)
               ELSE Response("get_users", <<limit, offset>>, HTTP_200_OK, "",
                             [users |-> PySlice(Rows(user), offset, offset + limit),
                              total |-> Len(Rows(user))])
    /\ UNCHANGED <<store, inflight>>

(* session.add(user_db); session.commit(); session.refresh(user_db) *)
CreateUserCommit(u) ==
    IF EmailTaken(user, u.email)
    THEN /\ resp' = Response("create_user", <<u>>, HTTP_500_INTERNAL, "IntegrityError", NoBody)
         /\ UNCHANGED user
    ELSE /\ user' = Insert(user, model_validate(u))
         /\ resp' = Response("create_user", <<u>>, HTTP_201_CREATED, "",
                             [id |-> NextId(user), row |-> model_validate(u)])

create_user(u) ==
    /\ EmailTaken(user, u.email) \/ NextId(user) <= MaxUsers
    /\ CreateUserCommit(u)
    /\ UNCHANGED <<playlist, album, song, playlistsong, inflight>>

update_user(user_id, u) ==
    /\ IF user_id \notin DOMAIN user
       THEN /\ resp' = Response("update_user", <<user_id, u>>, HTTP_404_NOT_FOUND, "", NoBody)
            /\ UNCHANGED user
       ELSE LET row == sqlmodel_update(user[user_id], model_dump(u, UserDefaults))
            IN /\ user' = [user EXCEPT ![user_id] = row]
               /\ resp' = Response("update_user", <<user_id, u>>, HTTP_200_OK, "",
                                   [id |-> user_id, row |-> row])
    /\ UNCHANGED <<playlist, album, song, playlistsong, inflight>>

delete_user(user_id) ==
    /\ IF user_id \notin DOMAIN user
       THEN /\ resp' = Response("delete_user", <<user_id>>, HTTP_404_NOT_FOUND, "", NoBody)
            /\ UNCHANGED <<user, playlist, album>>
       ELSE /\ user' = Delete(user, user_id)
            /\ playlist' = Orphan(playlist, "owner_id", user_id)
            /\ album' = Orphan(album, "owner_id", user_id)
            /\ resp' = Response("delete_user", <<user_id>>, HTTP_200_OK, "",
                                [status |-> HTTP_200_OK])
    /\ UNCHANGED <<song, playlistsong, inflight>>

----------------------------------------------------------------------------
(* Playlist logic *)

get_user_playlists(user_id) ==
    \* user.playlists of no user raises AttributeError.
    /\ resp' = IF user_id \notin DOMAIN user
               THEN Response("get_user_playlists", <<user_id>>, HTTP_500_INTERNAL,
                             "AttributeError", NoBody)
               ELSE Response("get_user_playlists", <<user_id>>, HTTP_200_OK, "",
                             UserPlaylists(user_id))
    /\ UNCHANGED <<store, inflight>>

get_user_playlist(user_id, playlist_id) ==
    \* playlist.songs is read before the test of playlist against None: with no
    \* row the read raises AttributeError, and the test is never reached.
    /\ resp' = IF ~OwnedPlaylist(user_id, playlist_id)
               THEN Response("get_user_playlist", <<user_id, playlist_id>>,
                             HTTP_500_INTERNAL, "AttributeError", NoBody)
               ELSE Response("get_user_playlist", <<user_id, playlist_id>>, HTTP_200_OK, "",
                             [playlist |-> playlist[playlist_id],
                              songs |-> PlaylistSongs(playlist_id)])
    /\ UNCHANGED <<store, inflight>>

(* The link read without its filter on the playlist. *)
LinkReadAnyPlaylist(playlist_id, song_id) ==
    \E e \in BagToSet(playlistsong) : e[2] = song_id

(* select(PlaylistSong).where(song_id == song_id).where(playlist_id == playlist_id).first() *)
LinkRead(playlist_id, song_id) == BagIn(<<playlist_id, song_id>>, playlistsong)

(* The checks of add_song_in_playlist and remove_song_from_playlist, in the *)
(* order of the code: the detail of the first that fails, "" when none does. *)
(* First the same checks with the song looked up before the playlist.       *)
LinkChecksSongFirst(user_id, playlist_id, song_id, linked_wanted) ==
    IF song_id \notin DOMAIN song THEN "Song doesn't exist"
    ELSE IF ~OwnedPlaylist(user_id, playlist_id) THEN "Playlist doesn't exist"
    ELSE IF LinkRead(playlist_id, song_id) # linked_wanted
         THEN (IF linked_wanted THEN "Song is not in a playlist"
               ELSE "Song is already in playlist")
    ELSE ""

LinkChecks(user_id, playlist_id, song_id, linked_wanted) ==
    IF ~OwnedPlaylist(user_id, playlist_id) THEN "Playlist doesn't exist"
    ELSE IF song_id \notin DOMAIN song THEN "Song doesn't exist"
    ELSE IF LinkRead(playlist_id, song_id) # linked_wanted
         THEN (IF linked_wanted THEN "Song is not in a playlist"
               ELSE "Song is already in playlist")
    ELSE ""

(* playlist.songs, loaded when the handler first reads it: whether the song *)
(* is in it.                                                                *)
InCollection(playlist_id, song_id) ==
    song_id \in DOMAIN song /\ BagIn(<<playlist_id, song_id>>, playlistsong)

(* session.add(playlist); session.commit() after playlist.songs.append(song). *)
(* A song that the loaded collection held already is no change to flush; a    *)
(* song appended to it is an INSERT into playlistsong.                        *)
AddFlush(user_id, playlist_id, song_id, duplicate) ==
    IF duplicate
    THEN /\ resp' = Response("add_song_in_playlist", <<user_id, playlist_id, song_id>>,
                             HTTP_200_OK, "", [status |-> HTTP_200_OK])
         /\ UNCHANGED playlistsong
    ELSE IF LinkTaken(playlistsong, playlist_id, song_id)
    THEN /\ resp' = Response("add_song_in_playlist", <<user_id, playlist_id, song_id>>,
                             HTTP_500_INTERNAL, "IntegrityError", NoBody)
         /\ UNCHANGED playlistsong
    ELSE /\ playlistsong' = playlistsong (+) SetToBag({<<playlist_id, song_id>>})
         /\ resp' = Response("add_song_in_playlist", <<user_id, playlist_id, song_id>>,
                             HTTP_200_OK, "", [status |-> HTTP_200_OK])

(* session.add(playlist); session.commit() after playlist.songs.remove(song): *)
(* a DELETE of the row. When another request deleted the row first, the      *)
(* DELETE matches no row: the ORM raises StaleDataError where the driver      *)
(* reports row counts, and the request succeeds where it does not.            *)
RemoveFlush(user_id, playlist_id, song_id) ==
    IF ~BagIn(<<playlist_id, song_id>>, playlistsong)
    THEN /\ \E status \in {HTTP_200_OK, HTTP_500_INTERNAL} :
               resp' = Response("remove_song_from_playlist",
                                <<user_id, playlist_id, song_id>>, status,
                                IF status = HTTP_200_OK THEN "" ELSE "StaleDataError",
                                IF status = HTTP_200_OK THEN [status |-> HTTP_200_OK]
                                ELSE NoBody)
         /\ UNCHANGED playlistsong
    ELSE /\ playlistsong' = playlistsong (-) SetToBag({<<playlist_id, song_id>>})
         /\ resp' = Response("remove_song_from_playlist", <<user_id, playlist_id, song_id>>,
                             HTTP_200_OK, "", [status |-> HTTP_200_OK])

(* playlist.songs.remove(song) on a collection without the song. *)
RemoveValueError(user_id, playlist_id, song_id) ==
    resp' = Response("remove_song_from_playlist", <<user_id, playlist_id, song_id>>,
                     HTTP_500_INTERNAL, "ValueError", NoBody)

add_song_in_playlist(user_id, playlist_id, song_id) ==
    /\ IF LinkChecks(user_id, playlist_id, song_id, FALSE) # ""
       THEN /\ resp' = Response("add_song_in_playlist", <<user_id, playlist_id, song_id>>,
                                HTTP_404_NOT_FOUND,
                                LinkChecks(user_id, playlist_id, song_id, FALSE), NoBody)
            /\ UNCHANGED playlistsong
       ELSE AddFlush(user_id, playlist_id, song_id, InCollection(playlist_id, song_id))
    /\ UNCHANGED <<user, playlist, album, song, inflight>>

remove_song_from_playlist(user_id, playlist_id, song_id) ==
    /\ IF LinkChecks(user_id, playlist_id, song_id, TRUE) # ""
       THEN /\ resp' = Response("remove_song_from_playlist", <<user_id, playlist_id, song_id>>,
                                HTTP_404_NOT_FOUND,
                                LinkChecks(user_id, playlist_id, song_id, TRUE), NoBody)
            /\ UNCHANGED playlistsong
       ELSE IF ~InCollection(playlist_id, song_id)
       THEN /\ RemoveValueError(user_id, playlist_id, song_id)
            /\ UNCHANGED playlistsong
       ELSE RemoveFlush(user_id, playlist_id, song_id)
    /\ UNCHANGED <<user, playlist, album, song, inflight>>

create_playlist(user_id, p) ==
    /\ user_id \notin DOMAIN user \/ NextId(playlist) <= MaxPlaylists
    /\ IF user_id \notin DOMAIN user
       THEN /\ resp' = Response("create_playlist", <<user_id, p>>, HTTP_404_NOT_FOUND,
                                "User doesn't exist", NoBody)
            /\ UNCHANGED playlist
       ELSE LET row == [name |-> p.name, owner_id |-> Some(user_id)]
            IN /\ playlist' = Insert(playlist, row)
               /\ resp' = Response("create_playlist", <<user_id, p>>, HTTP_201_CREATED, "",
                                   [id |-> NextId(playlist), row |-> row])
    /\ UNCHANGED <<user, album, song, playlistsong, inflight>>

update_user_playlist(user_id, playlist_id, p) ==
    /\ IF ~OwnedPlaylist(user_id, playlist_id)
       THEN /\ resp' = Response("update_user_playlist", <<user_id, playlist_id, p>>,
                                HTTP_404_NOT_FOUND, "", NoBody)
            /\ UNCHANGED playlist
       ELSE LET row == sqlmodel_update(playlist[playlist_id], model_dump(p, <<>>))
            IN /\ playlist' = [playlist EXCEPT ![playlist_id] = row]
               /\ resp' = Response("update_user_playlist", <<user_id, playlist_id, p>>,
                                   HTTP_200_OK, "", [id |-> playlist_id, row |-> row])
    /\ UNCHANGED <<user, album, song, playlistsong, inflight>>

delete_user_playlist(user_id, playlist_id) ==
    /\ IF ~OwnedPlaylist(user_id, playlist_id)
       THEN /\ resp' = Response("delete_user_playlist", <<user_id, playlist_id>>,
                                HTTP_404_NOT_FOUND, "", NoBody)
            /\ UNCHANGED <<playlist, playlistsong>>
       ELSE /\ playlist' = Delete(playlist, playlist_id)
            /\ playlistsong' = Unlink(playlistsong, 1, playlist_id)
            /\ resp' = Response("delete_user_playlist", <<user_id, playlist_id>>,
                                HTTP_200_OK, "", [status |-> HTTP_200_OK])
    /\ UNCHANGED <<user, album, song, inflight>>

----------------------------------------------------------------------------
(* Album logic *)

get_album(album_id) ==
    /\ resp' = IF album_id \notin DOMAIN album
               THEN Response("get_album", <<album_id>>, HTTP_404_NOT_FOUND,
                             "Album doesn't exist", NoBody)
               ELSE Response("get_album", <<album_id>>, HTTP_200_OK, "",
                             [album |-> album[album_id], songs |-> AlbumSongs(album_id)])
    /\ UNCHANGED <<store, inflight>>

get_user_albums(user_id) ==
    /\ resp' = IF user_id \notin DOMAIN user
               THEN Response("get_user_albums", <<user_id>>, HTTP_404_NOT_FOUND,
                             "Album doesn't exist", NoBody)
               ELSE Response("get_user_albums", <<user_id>>, HTTP_200_OK, "",
                             UserAlbums(user_id))
    /\ UNCHANGED <<store, inflight>>

update_album(album_id, a) ==
    /\ IF album_id \notin DOMAIN album
       THEN /\ resp' = Response("update_album", <<album_id, a>>, HTTP_404_NOT_FOUND,
                                "Album not found", NoBody)
            /\ UNCHANGED album
       ELSE LET row == sqlmodel_update(album[album_id], model_dump(a, <<>>))
            IN /\ album' = [album EXCEPT ![album_id] = row]
               /\ resp' = Response("update_album", <<album_id, a>>, HTTP_200_OK, "",
                                   [id |-> album_id, row |-> row])
    /\ UNCHANGED <<user, playlist, song, playlistsong, inflight>>

create_album(user_id, a) ==
    /\ user_id \notin DOMAIN user \/ NextId(album) <= MaxAlbums
    /\ IF user_id \notin DOMAIN user
       THEN /\ resp' = Response("create_album", <<user_id, a>>, HTTP_404_NOT_FOUND,
                                "User doesn't exist", NoBody)
            /\ UNCHANGED album
       ELSE LET row == [name |-> a.name, owner_id |-> Some(user_id)]
            IN /\ album' = Insert(album, row)
               /\ resp' = Response("create_album", <<user_id, a>>, HTTP_200_OK, "",
                                   [id |-> NextId(album), row |-> row])
    /\ UNCHANGED <<user, playlist, song, playlistsong, inflight>>

(* DELETE /album/{album_id}: the second function the source names create_album. *)
delete_album(album_id) ==
    /\ IF album_id \notin DOMAIN album
       THEN /\ resp' = Response("delete_album", <<album_id>>, HTTP_404_NOT_FOUND,
                                "Album doesn't exist", NoBody)
            /\ UNCHANGED <<album, song>>
       ELSE /\ album' = Delete(album, album_id)
            /\ song' = Orphan(song, "album_id", album_id)
            /\ resp' = Response("delete_album", <<album_id>>, HTTP_200_OK, "",
                                [status |-> HTTP_200_OK])
    /\ UNCHANGED <<user, playlist, playlistsong, inflight>>

----------------------------------------------------------------------------
(* Song logic *)

get_album_songs(album_id) ==
    /\ resp' = IF album_id \notin DOMAIN album
               THEN Response("get_album_songs", <<album_id>>, HTTP_404_NOT_FOUND,
                             "Album not found", NoBody)
               ELSE Response("get_album_songs", <<album_id>>, HTTP_200_OK, "",
                             AlbumSongs(album_id))
    /\ UNCHANGED <<store, inflight>>

get_song(song_id) ==
    /\ resp' = IF song_id \notin DOMAIN song
               THEN Response("get_song", <<song_id>>, HTTP_404_NOT_FOUND,
                             "Song not found", NoBody)
               ELSE Response("get_song", <<song_id>>, HTTP_200_OK, "", song[song_id])
    /\ UNCHANGED <<store, inflight>>

add_song_in_album(album_id, s) ==
    /\ album_id \notin DOMAIN album \/ NextId(song) <= MaxSongs
    /\ IF album_id \notin DOMAIN album
       THEN /\ resp' = Response("add_song_in_album", <<album_id, s>>, HTTP_404_NOT_FOUND,
                                "Album not found", NoBody)
            /\ UNCHANGED song
       ELSE LET row == [name |-> s.name, duration_in_sec |-> s.duration_in_sec,
                        album_id |-> Some(album_id)]
            IN /\ song' = Insert(song, row)
               /\ resp' = Response("add_song_in_album", <<album_id, s>>, HTTP_200_OK, "",
                                   [id |-> NextId(song), row |-> row])
    /\ UNCHANGED <<user, playlist, album, playlistsong, inflight>>

update_song(song_id, s) ==
    /\ IF song_id \notin DOMAIN song
       THEN /\ resp' = Response("update_song", <<song_id, s>>, HTTP_404_NOT_FOUND,
                                "Song not found", NoBody)
            /\ UNCHANGED song
       ELSE LET row == sqlmodel_update(song[song_id], model_dump(s, <<>>))
            IN /\ song' = [song EXCEPT ![song_id] = row]
               /\ resp' = Response("update_song", <<song_id, s>>, HTTP_200_OK, "",
                                   [id |-> song_id, row |-> row])
    /\ UNCHANGED <<user, playlist, album, playlistsong, inflight>>

(* DELETE /song/{song_id}: the second function the source names update_song. *)
delete_song(song_id) ==
    /\ IF song_id \notin DOMAIN song
       THEN /\ resp' = Response("delete_song", <<song_id>>, HTTP_404_NOT_FOUND,
                                "Song doesn't exist", NoBody)
            /\ UNCHANGED <<song, playlistsong>>
       ELSE /\ song' = Delete(song, song_id)
            /\ playlistsong' = Unlink(playlistsong, 2, song_id)
            /\ resp' = Response("delete_song", <<song_id>>, HTTP_200_OK, "",
                                [status |-> HTTP_200_OK])
    /\ UNCHANGED <<user, playlist, album, inflight>>

----------------------------------------------------------------------------
(* Requests at once. A request runs in a slot; it is suspended after its    *)
(* checks, and again after it has loaded playlist.songs and changed the     *)
(* collection, and the requests of the other slots take their steps.        *)

InFlight(op, args, pc) == [op |-> op, args |-> args, pc |-> pc]

(* add_song_in_playlist up to its last check *)
begin_add_song_in_playlist(r, user_id, playlist_id, song_id) ==
    /\ inflight[r] = Idle
    /\ IF LinkChecks(user_id, playlist_id, song_id, FALSE) # ""
       THEN /\ resp' = Response("add_song_in_playlist", <<user_id, playlist_id, song_id>>,
                                HTTP_404_NOT_FOUND,
                                LinkChecks(user_id, playlist_id, song_id, FALSE), NoBody)
            /\ UNCHANGED inflight
       ELSE /\ inflight' = [inflight EXCEPT ![r] =
                               InFlight("add_song_in_playlist",
                                        <<user_id, playlist_id, song_id>>, "checked")]
            /\ UNCHANGED resp
    /\ UNCHANGED store

(* playlist.songs.append(song): the collection is loaded, then appended to *)
load_add_song_in_playlist(r) ==
    /\ inflight[r].op = "add_song_in_playlist"
    /\ inflight[r].pc = "checked"
    /\ inflight' = [inflight EXCEPT ![r].pc =
                       IF InCollection(inflight[r].args[2], inflight[r].args[3])
                       THEN "duplicate" ELSE "appended"]
    /\ UNCHANGED <<store, resp>>

(* session.add(playlist); session.commit() *)
commit_add_song_in_playlist(r) ==
    /\ inflight[r].op = "add_song_in_playlist"
    /\ inflight[r].pc \in {"duplicate", "appended"}
    /\ AddFlush(inflight[r].args[1], inflight[r].args[2], inflight[r].args[3],
                inflight[r].pc = "duplicate")
    /\ inflight' = [inflight EXCEPT ![r] = Idle]
    /\ UNCHANGED <<user, playlist, album, song>>

(* remove_song_from_playlist up to its last check *)
begin_remove_song_from_playlist(r, user_id, playlist_id, song_id) ==
    /\ inflight[r] = Idle
    /\ IF LinkChecks(user_id, playlist_id, song_id, TRUE) # ""
       THEN /\ resp' = Response("remove_song_from_playlist", <<user_id, playlist_id, song_id>>,
                                HTTP_404_NOT_FOUND,
                                LinkChecks(user_id, playlist_id, song_id, TRUE), NoBody)
            /\ UNCHANGED inflight
       ELSE /\ inflight' = [inflight EXCEPT ![r] =
                               InFlight("remove_song_from_playlist",
                                        <<user_id, playlist_id, song_id>>, "checked")]
            /\ UNCHANGED resp
    /\ UNCHANGED store

(* playlist.songs.remove(song): the collection is loaded, then removed from *)
load_remove_song_from_playlist(r) ==
    /\ inflight[r].op = "remove_song_from_playlist"
    /\ inflight[r].pc = "checked"
    /\ IF InCollection(inflight[r].args[2], inflight[r].args[3])
       THEN /\ inflight' = [inflight EXCEPT ![r].pc = "removed"]
            /\ UNCHANGED resp
       ELSE /\ RemoveValueError(inflight[r].args[1], inflight[r].args[2], inflight[r].args[3])
            /\ inflight' = [inflight EXCEPT ![r] = Idle]
    /\ UNCHANGED store

(* session.add(playlist); session.commit() *)
commit_remove_song_from_playlist(r) ==
    /\ inflight[r].op = "remove_song_from_playlist"
    /\ inflight[r].pc = "removed"
    /\ RemoveFlush(inflight[r].args[1], inflight[r].args[2], inflight[r].args[3])
    /\ inflight' = [inflight EXCEPT ![r] = Idle]
    /\ UNCHANGED <<user, playlist, album, song>>

(* user_db = User.model_validate(user); session.add(user_db) *)
begin_create_user(r, u) ==
    /\ inflight[r] = Idle
    /\ inflight' = [inflight EXCEPT ![r] = InFlight("create_user", <<u>>, "added")]
    /\ UNCHANGED <<store, resp>>

(* session.commit(); session.refresh(user_db) *)
commit_create_user(r) ==
    /\ inflight[r].op = "create_user"
    /\ EmailTaken(user, inflight[r].args[1].email) \/ NextId(user) <= MaxUsers
    /\ CreateUserCommit(inflight[r].args[1])
    /\ inflight' = [inflight EXCEPT ![r] = Idle]
    /\ UNCHANGED <<playlist, album, song, playlistsong>>

----------------------------------------------------------------------------
(* The service: every handler, from the empty store. *)

Next ==
    \/ \E user_id \in UserIds : get_user(user_id)
    \/ \E limit \in Limits, offset \in Offsets : get_users(limit, offset)
    \/ \E u \in UserCreate : create_user(u)
    \/ \E user_id \in UserIds, u \in UserUpdate : update_user(user_id, u)
    \/ \E user_id \in UserIds : delete_user(user_id)
    \/ \E user_id \in UserIds, playlist_id \in PlaylistIds :
           get_user_playlist(user_id, playlist_id)
    \/ \E user_id \in UserIds, playlist_id \in PlaylistIds, song_id \in SongIds :
           add_song_in_playlist(user_id, playlist_id, song_id)
    \/ \E user_id \in UserIds, playlist_id \in PlaylistIds, song_id \in SongIds :
           remove_song_from_playlist(user_id, playlist_id, song_id)
    \/ \E user_id \in UserIds, p \in PlaylistCreate : create_playlist(user_id, p)
    \/ \E user_id \in UserIds, playlist_id \in PlaylistIds, p \in PlaylistUpdate :
           update_user_playlist(user_id, playlist_id, p)
    \/ \E user_id \in UserIds, playlist_id \in PlaylistIds :
           delete_user_playlist(user_id, playlist_id)
    \/ \E album_id \in AlbumIds : get_album(album_id)
    \/ \E user_id \in UserIds, a \in AlbumCreate : create_album(user_id, a)
    \/ \E album_id \in AlbumIds : delete_album(album_id)
    \/ \E song_id \in SongIds : get_song(song_id)
    \/ \E album_id \in AlbumIds, s \in SongCreate : add_song_in_album(album_id, s)
    \/ \E song_id \in SongIds : delete_song(song_id)
    \/ \E user_id \in UserIds : get_user_playlists(user_id)
    \/ \E user_id \in UserIds : get_user_albums(user_id)
    \/ \E album_id \in AlbumIds, a \in AlbumUpdate : update_album(album_id, a)
    \/ \E album_id \in AlbumIds : get_album_songs(album_id)
    \/ \E song_id \in SongIds, s \in SongUpdate : update_song(song_id, s)

Spec == Init /\ [][Next]_vars

----------------------------------------------------------------------------
(* The user table alone: every body of create_user and update_user over two *)
(* of the emails.                                                           *)

NextUser ==
    \/ \E user_id \in UserIds : get_user(user_id)
    \/ \E limit \in {1, LimitCap}, offset \in {0, 1} : get_users(limit, offset)
    \/ \E u \in {b \in UserCreate : b.email \in {"a@x.com", "b@x.com"}} : create_user(u)
    \/ \E user_id \in UserIds, u \in UserUpdate : update_user(user_id, u)
    \/ \E user_id \in UserIds : delete_user(user_id)

SpecUser == Init /\ [][NextUser]_vars

(* The list endpoint: users created with their email alone, every limit and offset. *)

NextList ==
    \/ \E limit \in Limits, offset \in Offsets : get_users(limit, offset)
    \/ \E u \in UserCreateEmailOnly : create_user(u)
    \/ \E user_id \in UserIds : delete_user(user_id)

SpecList == Init /\ [][NextList]_vars

----------------------------------------------------------------------------
(* Stores the service reaches by its create handlers, from which the        *)
(* specifications about playlists, deletes and concurrent requests start.   *)

EmailOnly(email) == [email |-> email, role |-> Unset, firstname |-> Unset, lastname |-> Unset]

(* POST /user twice *)
TwoUsers == Insert(Insert(<<>>, model_validate(EmailOnly("a@x.com"))),
                   model_validate(EmailOnly("b@x.com")))
(* POST /user/{owner}/album *)
OneAlbum(owner) == Insert(<<>>, [name |-> "n1", owner_id |-> Some(owner)])
(* POST /album/1/song, once and twice *)
OneSong == Insert(<<>>, [name |-> "n1", duration_in_sec |-> 0, album_id |-> Some(1)])
TwoSongs == Insert(OneSong, [name |-> "n2", duration_in_sec |-> 180, album_id |-> Some(1)])
(* POST /user/{owners[1]}/playlist, POST /user/{owners[2]}/playlist *)
TwoPlaylists(owners) ==
    Insert(Insert(<<>>, [name |-> "n1", owner_id |-> Some(owners[1])]),
           [name |-> "n1", owner_id |-> Some(owners[2])])

(* Playlists and their songs: two users, an album and its song stored. *)
InitPlaylist ==
    /\ user = TwoUsers
    /\ playlist = <<>>
    /\ album = OneAlbum(1)
    /\ song = OneSong
    /\ playlistsong = EmptyBag
    /\ resp = Response("startup", <<>>, HTTP_200_OK, "", NoBody)
    /\ inflight = [r \in Slots |-> Idle]

(* The users and songs a request names: the two users, the song and a song  *)
(* that is not stored.                                                      *)
PathUserIds == 1 .. 2
PathSongIds == 1 .. 2

NextPlaylist ==
    \/ \E user_id \in PathUserIds, playlist_id \in PlaylistIds :
           get_user_playlist(user_id, playlist_id)
    \/ \E user_id \in PathUserIds, playlist_id \in PlaylistIds, song_id \in PathSongIds :
           add_song_in_playlist(user_id, playlist_id, song_id)
    \/ \E user_id \in PathUserIds, playlist_id \in PlaylistIds, song_id \in PathSongIds :
           remove_song_from_playlist(user_id, playlist_id, song_id)
    \/ \E user_id \in PathUserIds, p \in {[name |-> "n1"]} : create_playlist(user_id, p)
    \/ \E user_id \in PathUserIds, playlist_id \in PlaylistIds, p \in PlaylistUpdate :
           update_user_playlist(user_id, playlist_id, p)
    \/ \E user_id \in PathUserIds, playlist_id \in PlaylistIds :
           delete_user_playlist(user_id, playlist_id)

SpecPlaylist == InitPlaylist /\ [][NextPlaylist]_vars

(* Deletes and the get that follows: two users, two playlists, an album, its *)
(* two songs and three links stored, under every assignment of the owners.   *)
InitDelete ==
    /\ user = TwoUsers
    /\ \E owners \in [1 .. 2 -> 1 .. 2] : playlist = TwoPlaylists(owners)
    /\ \E owner \in 1 .. 2 : album = OneAlbum(owner)
    /\ song = TwoSongs
    /\ playlistsong = SetToBag({<<1, 1>>, <<1, 2>>, <<2, 1>>})
    /\ resp = Response("startup", <<>>, HTTP_200_OK, "", NoBody)
    /\ inflight = [r \in Slots |-> Idle]

NextDelete ==
    \/ \E user_id \in UserIds : get_user(user_id)
    \/ \E user_id \in UserIds : delete_user(user_id)
    \/ \E user_id \in UserIds, playlist_id \in PlaylistIds :
           get_user_playlist(user_id, playlist_id)
    \/ \E user_id \in UserIds, playlist_id \in PlaylistIds :
           delete_user_playlist(user_id, playlist_id)
    \/ \E album_id \in AlbumIds : get_album(album_id)
    \/ \E album_id \in AlbumIds : delete_album(album_id)
    \/ \E song_id \in SongIds : get_song(song_id)
    \/ \E song_id \in SongIds : delete_song(song_id)

SpecDelete == InitDelete /\ [][NextDelete]_vars

(* Concurrent requests: a user, its playlist, an album and its two songs     *)
(* stored; add, remove and create_user run in slots and interleave.          *)
InitConc ==
    /\ user = Insert(<<>>, model_validate(EmailOnly("a@x.com")))
    /\ playlist = Insert(<<>>, [name |-> "n1", owner_id |-> Some(1)])
    /\ album = OneAlbum(1)
    /\ song = TwoSongs
    /\ playlistsong = EmptyBag
    /\ resp = Response("startup", <<>>, HTTP_200_OK, "", NoBody)
    /\ inflight = [r \in Slots |-> Idle]

UserUpdateRoleOnly ==
    {u \in UserUpdate : u.role = Some(1) /\ u.firstname = Unset /\ u.lastname = Unset}

NextConc ==
    \/ \E r \in Slots, playlist_id \in 1 .. 2, song_id \in 1 .. 2 :
           begin_add_song_in_playlist(r, 1, playlist_id, song_id)
    \/ \E r \in Slots : load_add_song_in_playlist(r)
    \/ \E r \in Slots : commit_add_song_in_playlist(r)
    \/ \E r \in Slots, playlist_id \in 1 .. 2, song_id \in 1 .. 2 :
           begin_remove_song_from_playlist(r, 1, playlist_id, song_id)
    \/ \E r \in Slots : load_remove_song_from_playlist(r)
    \/ \E r \in Slots : commit_remove_song_from_playlist(r)
    \/ \E r \in Slots, u \in {EmailOnly("a@x.com"), EmailOnly("b@x.com")} :
           begin_create_user(r, u)
    \/ \E r \in Slots : commit_create_user(r)
    \/ \E user_id \in 1 .. 2, u \in UserUpdateRoleOnly : update_user(user_id, u)
    \/ get_user_playlist(1, 1)

SpecConc == InitConc /\ [][NextConc]_vars

----------------------------------------------------------------------------
(* Properties. A step is recognised by the response it leaves: every        *)
(* handler writes resp, and in SpecConc a commit empties its slot.          *)

Count(seq, x) == Cardinality({k \in DOMAIN seq : seq[k] = x})
IsLinkOp(op) == op \in {"add_song_in_playlist", "remove_song_from_playlist"}

(* C1: for a playlist p owned by u and a stored song s, add_song_in_playlist *)
(* on a pair not linked answers 200 and links it once; on a linked pair it   *)
(* answers 404 "Song is already in playlist" and leaves the membership as it *)
(* was; a successful remove_song_from_playlist leaves p without s.           *)
C1_AddTwiceThenRemove ==
    [][\A u \in DOMAIN user, p \in DOMAIN playlist, s \in DOMAIN song :
         (OwnedPlaylist(u, p) /\ s \in DOMAIN song) =>
           /\ (resp'.op = "add_song_in_playlist" /\ resp'.args = <<u, p, s>>
                  /\ ~BagIn(<<p, s>>, playlistsong))
                => (resp'.status = HTTP_200_OK /\ CopiesIn(<<p, s>>, playlistsong') = 1)
           /\ (resp'.op = "add_song_in_playlist" /\ resp'.args = <<u, p, s>>
                  /\ BagIn(<<p, s>>, playlistsong))
                => (/\ resp'.status = HTTP_404_NOT_FOUND
                    /\ resp'.detail = "Song is already in playlist"
                    /\ playlistsong' = playlistsong)
           /\ (resp'.op = "remove_song_from_playlist" /\ resp'.args = <<u, p, s>>
                  /\ BagIn(<<p, s>>, playlistsong))
                => (/\ resp'.status = HTTP_200_OK
                    /\ Count(PlaylistSongs(p)', s) = 0)
      ]_vars

(* A second add has just failed on a pair the first add linked. *)
C1_Witness ==
    /\ resp.op = "add_song_in_playlist"
    /\ resp.status = HTTP_404_NOT_FOUND
    /\ resp.detail = "Song is already in playlist"
    /\ CopiesIn(<<resp.args[2], resp.args[3]>>, playlistsong) = 1

C3_NotOwnedIs404 ==
    [][(/\ resp'.op \in {"get_user_playlist", "update_user_playlist", "delete_user_playlist"}
        /\ ~OwnedPlaylist(resp'.args[1], resp'.args[2]))
         => (resp'.status = HTTP_404_NOT_FOUND /\ store' = store)
      ]_vars

(* C4: for every kind of entity, the get by id that follows a successful     *)
(* delete of the same id ends with 404.                                      *)
C4_DeleteThenGet ==
    [][\A kind \in {<<"delete_user", "get_user">>,
                    <<"delete_user_playlist", "get_user_playlist">>,
                    <<"delete_album", "get_album">>,
                    <<"delete_song", "get_song">>} :
         (/\ resp.op = kind[1] /\ resp.status = HTTP_200_OK
          /\ resp'.op = kind[2] /\ resp'.args = resp.args)
           => resp'.status = HTTP_404_NOT_FOUND
      ]_vars

(* C5: update_user of a stored user assigns the fields its body sends and    *)
(* keeps the others; the email, the id and every other row stay as they      *)
(* were.                                                                     *)
C5_PartialUpdate ==
    [][(resp'.op = "update_user" /\ resp'.args[1] \in DOMAIN user) =>
         LET id == resp'.args[1]
             u == resp'.args[2]
         IN /\ resp'.status = HTTP_200_OK
            /\ DOMAIN user' = DOMAIN user
            /\ \A f \in {"role", "firstname", "lastname"} :
                  user'[id][f] = IF u[f] = Unset THEN user[id][f] ELSE u[f][1]
            /\ user'[id].email = user[id].email
            /\ \A j \in DOMAIN user \ {id} : user'[j] = user[j]
            /\ <<playlist, album, song, playlistsong>>' = <<playlist, album, song, playlistsong>>
      ]_vars

(* A body with the role alone has just updated a user whose names are set. *)
C5_Witness ==
    /\ resp.op = "update_user"
    /\ resp.status = HTTP_200_OK
    /\ resp.args[2] = [role |-> Some(1), firstname |-> Unset, lastname |-> Unset]
    /\ user[resp.args[1]] \in [email : Emails, role : {1},
                               firstname : {Some("Ann")}, lastname : {Some("Lee")}]

(* C6 as stated: for every limit <= 100 and every offset, get_users answers  *)
(* with total the number of users and min(limit, max(0, total - offset))     *)
(* users, and changes nothing.                                               *)
C6_AnyLimitAnyOffset ==
    [][(resp'.op = "get_users" /\ resp'.args[1] <= LimitCap) =>
         /\ store' = store
         /\ resp'.status = HTTP_200_OK
         /\ resp'.body.total = Cardinality(DOMAIN user)
         /\ Len(resp'.body.users) =
               Min(resp'.args[1], Max(0, resp'.body.total - resp'.args[2]))
      ]_vars

(* C6 amended: the same for 0 <= limit <= 100 and offset >= 0. *)
C6_SliceLength ==
    [][(/\ resp'.op = "get_users" /\ resp'.args[1] <= LimitCap
        /\ resp'.args[1] >= 0 /\ resp'.args[2] >= 0) =>
         /\ store' = store
         /\ resp'.status = HTTP_200_OK
         /\ resp'.body.total = Cardinality(DOMAIN user)
         /\ Len(resp'.body.users) =
               Min(resp'.args[1], Max(0, resp'.body.total - resp'.args[2]))
      ]_vars

(* A slice that is cut by the limit: limit 1 at offset 1 of two users or more. *)
C6_Witness ==
    /\ resp.op = "get_users"
    /\ resp.status = HTTP_200_OK
    /\ resp.args = <<1, 1>>
    /\ resp.body.total >= 2
    /\ Len(resp.body.users) = 1

(* C7 as stated: get_users with a limit above 100 succeeds with the answer   *)
(* of the same request with limit 100.                                       *)
C7_LimitTruncated ==
    [][(resp'.op = "get_users" /\ resp'.args[1] > LimitCap) =>
         /\ resp'.status = HTTP_200_OK
         /\ resp'.body = [users |-> PySlice(Rows(user), resp'.args[2],
                                            resp'.args[2] + LimitCap),
                          total |-> Cardinality(DOMAIN user)]
      ]_vars

(* C7 amended: get_users with a limit above 100 is rejected with 422,        *)
(* returns no users and changes nothing.                                     *)
C7_LimitRejected ==
    [][(resp'.op = "get_users" /\ resp'.args[1] > LimitCap) =>
         /\ resp'.status = HTTP_422_UNPROCESSABLE
         /\ resp'.body = NoBody
         /\ store' = store
      ]_vars

(* A limit of 101 has just been rejected with users stored. *)
C7_Witness ==
    /\ resp.op = "get_users"
    /\ resp.args[1] = LimitCap + 1
    /\ resp.status = HTTP_422_UNPROCESSABLE
    /\ DOMAIN user # {}

C9_NoCascade ==
    [][/\ (resp'.op = "delete_user" /\ resp'.status = HTTP_200_OK) =>
            LET u == resp'.args[1]
            IN /\ DOMAIN playlist' = DOMAIN playlist
               /\ DOMAIN album' = DOMAIN album
               /\ DOMAIN song' = DOMAIN song
               /\ \A p \in DOMAIN playlist :
                     IF playlist[p].owner_id = Some(u)
                     THEN /\ playlist'[p].owner_id \in {None, Some(u)}
                          /\ playlist'[p].name = playlist[p].name
                     ELSE playlist'[p] = playlist[p]
               /\ \A a \in DOMAIN album :
                     IF album[a].owner_id = Some(u)
                     THEN /\ album'[a].owner_id \in {None, Some(u)}
                          /\ album'[a].name = album[a].name
                     ELSE album'[a] = album[a]
       /\ (resp'.op = "delete_album" /\ resp'.status = HTTP_200_OK) =>
            LET a == resp'.args[1]
            IN /\ DOMAIN album' = DOMAIN album \ {a}
               /\ DOMAIN playlist' = DOMAIN playlist
               /\ DOMAIN song' = DOMAIN song
               /\ \A s \in DOMAIN song :
                     IF song[s].album_id = Some(a)
                     THEN song'[s].album_id \in {None, Some(a)}
                     ELSE song'[s] = song[s]
      ]_vars

(* A user has just been deleted, and a playlist it owned is stored. *)
C9_Witness ==
    /\ resp.op = "delete_user"
    /\ resp.status = HTTP_200_OK
    /\ resp.args[1] \notin DOMAIN user
    /\ \E p \in DOMAIN playlist : playlist[p].owner_id = None
    /\ \E a \in DOMAIN album : album[a].owner_id = None

(* C10: add_song_in_playlist and remove_song_from_playlist report the first  *)
(* of playlist, song, link state that fails, each with 404 and the           *)
(* membership unchanged; a success changes the membership of its pair alone. *)
C10_CheckOrder ==
    [][(IsLinkOp(resp'.op)) =>
         LET u == resp'.args[1]
             p == resp'.args[2]
             s == resp'.args[3]
             add == resp'.op = "add_song_in_playlist"
             linked == BagIn(<<p, s>>, playlistsong)
         IN IF ~(p \in DOMAIN playlist /\ playlist[p].owner_id = Some(u))
            THEN /\ resp'.status = HTTP_404_NOT_FOUND
                 /\ resp'.detail = "Playlist doesn't exist"
                 /\ playlistsong' = playlistsong
            ELSE IF s \notin DOMAIN song
            THEN /\ resp'.status = HTTP_404_NOT_FOUND
                 /\ resp'.detail = "Song doesn't exist"
                 /\ playlistsong' = playlistsong
            ELSE IF add = linked
            THEN /\ resp'.status = HTTP_404_NOT_FOUND
                 /\ playlistsong' = playlistsong
            ELSE /\ resp'.status = HTTP_200_OK
                 /\ BagIn(<<p, s>>, playlistsong') = add
                 /\ \A e \in (DOMAIN playlistsong \cup DOMAIN playlistsong') \ {<<p, s>>} :
                       CopiesIn(e, playlistsong') = CopiesIn(e, playlistsong)
      ]_vars

(* A request naming a stored playlist of the user and a song that is not     *)
(* stored has just failed on the song, with links stored.                    *)
C10_Witness ==
    /\ IsLinkOp(resp.op)
    /\ resp.status = HTTP_404_NOT_FOUND
    /\ resp.detail = "Song doesn't exist"
    /\ OwnedPlaylist(resp.args[1], resp.args[2])
    /\ playlistsong # EmptyBag

=============================================================================
